---- MODULE Spec2Model ----
(***************************************************************************)
(* Video Combiner API (src/main.py): one job, from the HTTP request to the *)
(* end of its background work.  The three entry points (/combine-videos,   *)
(* /combine-videos-async, /combine-with-narration) share process_videos;   *)
(* /download/{job_id} lookups interleave with the job once its id is known.*)
(*                                                                         *)
(* Durations are floats: a duration is a whole number of a (small) time    *)
(* unit whose binary expansion fits Precision significant bits, and every  *)
(* sum and difference the code computes is rounded to the nearest such     *)
(* number, ties to the even significand, as Python's float does with 53    *)
(* bits.  Files are modelled by what is on disk at their path: "absent",   *)
(* "partial" (opened for writing, not all bytes written) or "complete".    *)
(***************************************************************************)
EXTENDS Integers, Sequences, FiniteSets

\* ------------------------------------------------------------------ bounds
MaxClips == 2
MaxDur == 2               \* clips of Spec: short, their sums and differences exact
MaxBudget == 3
MaxAudio == 2
MaxOverdraw == 1          \* max_duration goes down to -MaxOverdraw
Precision == 3            \* significant bits of a float
MaxBeyond == 6            \* long durations go up to 2^Precision + MaxBeyond

\* ---------------------------------------------------------------- constants
NoValue == 0 - 1          \* a duration not computed yet
BackgroundVolume == 30    \* volumex(0.3), in percent
BadRequest == 400
NotFound == 404
InternalError == 500

Endpoints == {"combine_videos", "combine_videos_async", "combine_with_narration"}

VARIABLES
    endpoint,          \* which entry point received the request
    n_links,           \* len(video_links) of the request
    has_audio_link,    \* the request carries an audio_link
    max_duration,      \* request.max_duration
    pc,                \* position of the job
    status,            \* HTTP status the entry point answered with (0: none yet)
    audio_temp,        \* file at audio_temp_path
    narration_temp,    \* file at narration_temp_path
    output_file,       \* file at output_path
    temp_dir,          \* the directory made by tempfile.mkdtemp exists
    dir_files,         \* files written into temp_dir, in download order
    downloaded_files,  \* indices (into dir_files) registered in downloaded_files
    durations,         \* clip.duration of the loaded clips, in order
    clips,             \* the clips after the trimming step
    trimmed,           \* the trimming step has run
    final_duration,    \* final_clip.duration
    bg_source,         \* duration of AudioFileClip(audio_path)
    bg_segment,        \* duration of background_audio after loop/trim
    bg_looped,         \* background_audio was looped
    bg_volume,         \* volume of background_audio, percent of the source
    narr_source,       \* duration of AudioFileClip(narration_path)
    narr_segment,      \* duration of narration_audio after the trim
    audio_track,       \* duration of the audio set on final_clip
    exported,          \* write_videofile returned
    error,             \* stage whose exception process_videos re-raises
    first_error,       \* history: first failure of the job, anywhere
    uncaught,          \* an exception left process_videos unwrapped
    cleanup_i,         \* position of the finally loop in downloaded_files
    removes_tried,     \* os.remove calls of the finally loop
    rmtree_tried,      \* shutil.rmtree calls
    rmtree_failed,     \* history: shutil.rmtree raised
    warnings,          \* logger.warning calls of the finally block
    workspaces,        \* tempfile.mkdtemp calls
    fetches,           \* requests.get calls
    writes,            \* files opened for writing
    served,            \* contents of output_path handed to a caller
    lookup,            \* status of the last /download/{job_id} lookup
    lookup_open        \* download_video has answered with a file not sent yet

request == <<endpoint, n_links, has_audio_link, max_duration>>
disk == <<audio_temp, narration_temp, output_file, temp_dir, dir_files>>
video == <<durations, clips, trimmed, final_duration>>
audio == <<bg_source, bg_segment, bg_looped, bg_volume, narr_source,
           narr_segment, audio_track>>
teardown == <<cleanup_i, removes_tried, rmtree_tried, rmtree_failed, warnings>>
counters == <<workspaces, fetches, writes>>
vars == <<request, pc, status, disk, downloaded_files, video, audio, exported,
          error, first_error, uncaught, teardown, counters, served, lookup, lookup_open>>

\* ------------------------------------------------------------ pure helpers
Min(a, b) == IF a < b THEN a ELSE b

Max(a, b) == IF a > b THEN a ELSE b

\* -------------------------------------------------------- float arithmetic
RECURSIVE Pow2(_)
Pow2(n) == IF n = 0 THEN 1 ELSE 2 * Pow2(n - 1)

\* The spacing of the floats around x >= 0: the least power of two u with
\* x < 2^Precision * u.
RECURSIVE UlpFrom(_, _)
UlpFrom(x, u) == IF x < Pow2(Precision) * u THEN u ELSE UlpFrom(x, 2 * u)

Ulp(x) == UlpFrom(x, 1)

\* The float nearest to x >= 0, ties to the even significand.
RoundNat(x) ==
    LET u == Ulp(x)
        q == x \div u
        r == x % u
    IN  IF 2 * r < u THEN q * u
        ELSE IF 2 * r > u THEN (q + 1) * u
        ELSE IF q % 2 = 0 THEN q * u ELSE (q + 1) * u

\* The float nearest to x.
Round(x) == IF x < 0 THEN 0 - RoundNat(0 - x) ELSE RoundNat(x)

\* x is a float.
IsFloat(x) == Round(x) = x

\* The floats of lo..hi.
Floats(lo, hi) == {x \in lo..hi : IsFloat(x)}

\* a + b and a - b on floats.
FAdd(a, b) == Round(a + b)

FSub(a, b) == Round(a - b)

\* ------------------------------------------------- the trimming step (pure)
\* A clip is [clip |-> its place in video_links, duration |-> its length];
\* clip.subclip(0, d) is the same clip with duration d.
ClipsOf(ds) == [i \in 1..Len(ds) |-> [clip |-> i, duration |-> ds[i]]]

\* The running total of a sum over cs that has reached acc: the durations are
\* added from left to right, each addition rounded.
RECURSIVE SumFrom(_, _)
SumFrom(acc, cs) ==
    IF cs = <<>> THEN acc
    ELSE SumFrom(FAdd(acc, Head(cs).duration), Tail(cs))

\* sum(clip.duration for clip in clips); also the duration of
\* concatenate_videoclips(clips), the last of the cumulated durations.
TotalDuration(cs) == SumFrom(0, cs)

\* The for loop of process_videos: trimmed_clips for the clips cs still to
\* visit and the remaining_duration at that point.
RECURSIVE TrimLoop(_, _)
TrimLoop(cs, remaining) ==
    IF cs = <<>> THEN <<>>
    ELSE IF remaining <= 0 THEN <<>>
    ELSE LET clip_duration == Min(Head(cs).duration, remaining)
         IN  <<[Head(cs) EXCEPT !.duration = clip_duration]>>
             \o TrimLoop(Tail(cs), FSub(remaining, clip_duration))

\* clips after "Trim clips if total duration exceeds max_duration".
TrimClips(cs, max) ==
    IF TotalDuration(cs) > max THEN TrimLoop(cs, max) ELSE cs

\* final_clip.duration after concatenate_videoclips and the final subclip.
FinalDuration(cs, max) ==
    IF TotalDuration(cs) > max THEN max ELSE TotalDuration(cs)

\* ------------------------------------------------------------------- Init
Init ==
    /\ endpoint \in Endpoints
    /\ n_links \in 0..MaxClips
    /\ has_audio_link \in BOOLEAN
    /\ max_duration \in (0 - MaxOverdraw)..MaxBudget
    /\ pc = "request"
    /\ status = 0
    /\ audio_temp = "absent"
    /\ narration_temp = "absent"
    /\ output_file = "absent"
    /\ temp_dir = FALSE
    /\ dir_files = <<>>
    /\ downloaded_files = {}
    /\ durations = <<>>
    /\ clips = <<>>
    /\ trimmed = FALSE
    /\ final_duration = NoValue
    /\ bg_source = NoValue
    /\ bg_segment = NoValue
    /\ bg_looped = FALSE
    /\ bg_volume = 100
    /\ narr_source = NoValue
    /\ narr_segment = NoValue
    /\ audio_track = NoValue
    /\ exported = FALSE
    /\ error = "none"
    /\ first_error = "none"
    /\ uncaught = FALSE
    /\ cleanup_i = 1
    /\ removes_tried = 0
    /\ rmtree_tried = 0
    /\ rmtree_failed = FALSE
    /\ warnings = 0
    /\ workspaces = 0
    /\ fetches = 0
    /\ writes = 0
    /\ served = {}
    /\ lookup = 0
    /\ lookup_open = FALSE

\* What a streamed download can do: finish, fail before the local file is
\* opened (connection, HTTP status), or fail after it was opened.
FetchOutcomes == {"ok", "refused", "broken"}

\* The first failure of the job is kept; later ones do not replace it.
FirstError(stage) == IF first_error = "none" THEN stage ELSE first_error

\* ------------------------------------------------------------ entry points
\* A request without audio_link fails the framework's validation of the
\* required field: the handler never runs.
RejectInvalid ==
    /\ pc = "request"
    /\ ~has_audio_link
    /\ status' = 422
    /\ first_error' = FirstError("validation")
    /\ pc' = "done"
    /\ UNCHANGED <<request, uncaught, disk, downloaded_files, video, audio, exported,
                   error, teardown, counters, served, lookup, lookup_open>>

\* POST /combine-videos: job id and paths, then the audio download.
CombineVideos ==
    /\ pc = "request"
    /\ has_audio_link
    /\ endpoint = "combine_videos"
    /\ pc' = "fetch_audio"
    /\ UNCHANGED <<request, uncaught, status, disk, downloaded_files, video, audio,
                   exported, error, first_error, teardown, counters, served,
                   lookup, lookup_open>>

\* POST /combine-videos-async: process_videos is scheduled with the audio
\* link itself as audio_path, and the job id is returned at once.
CombineVideosAsync ==
    /\ pc = "request"
    /\ has_audio_link
    /\ endpoint = "combine_videos_async"
    /\ status' = 200
    /\ pc' = "mkdtemp"
    /\ UNCHANGED <<request, uncaught, disk, downloaded_files, video, audio, exported,
                   error, first_error, teardown, counters, served, lookup, lookup_open>>

\* POST /combine-with-narration: the comma-separated links are parsed and an
\* empty list is refused.
CombineWithNarration ==
    /\ pc = "request"
    /\ has_audio_link
    /\ endpoint = "combine_with_narration"
    /\ IF n_links = 0
       THEN /\ status' = BadRequest
            /\ first_error' = FirstError("no_links")
            /\ pc' = "done"
       ELSE /\ pc' = "fetch_audio"
            /\ UNCHANGED <<status, first_error>>
    /\ UNCHANGED <<request, uncaught, disk, downloaded_files, video, audio, exported,
                   error, teardown, counters, served, lookup, lookup_open>>

\* The audio download of /combine-videos and /combine-with-narration:
\* requests.get, raise_for_status, then the chunks written to audio_temp_path.
\* Any exception is answered with 400 and nothing is removed.
FetchAudio ==
    /\ pc = "fetch_audio"
    /\ \E outcome \in FetchOutcomes :
         /\ fetches' = fetches + 1
         /\ audio_temp' = CASE outcome = "ok" -> "complete"
                            [] outcome = "broken" -> "partial"
                            [] OTHER -> audio_temp
         /\ writes' = IF outcome = "refused" THEN writes ELSE writes + 1
         /\ IF outcome = "ok"
            THEN /\ pc' = IF endpoint = "combine_with_narration"
                          THEN "save_narration" ELSE "mkdtemp"
                 /\ UNCHANGED <<status, first_error>>
            ELSE /\ status' = BadRequest
                 /\ first_error' = FirstError("fetch_audio")
                 /\ pc' = "done"
    /\ UNCHANGED <<request, uncaught, narration_temp, output_file, temp_dir, dir_files,
                   downloaded_files, video, audio, exported, error, teardown,
                   workspaces, served, lookup, lookup_open>>

\* The uploaded narration is read and written to narration_temp_path; any
\* exception is answered with 400 and nothing is removed.
SaveNarration ==
    /\ pc = "save_narration"
    /\ \E outcome \in FetchOutcomes :
         /\ narration_temp' = CASE outcome = "ok" -> "complete"
                                [] outcome = "broken" -> "partial"
                                [] OTHER -> narration_temp
         /\ writes' = IF outcome = "refused" THEN writes ELSE writes + 1
         /\ IF outcome = "ok"
            THEN /\ pc' = "mkdtemp"
                 /\ UNCHANGED <<status, first_error>>
            ELSE /\ status' = BadRequest
                 /\ first_error' = FirstError("save_narration")
                 /\ pc' = "done"
    /\ UNCHANGED <<request, uncaught, audio_temp, output_file, temp_dir, dir_files,
                   downloaded_files, video, audio, exported, error, teardown,
                   workspaces, fetches, served, lookup, lookup_open>>

\* -------------------------------------------------------- process_videos
\* except Exception: the error is logged and re-raised as HTTPException(500);
\* control passes to the finally block.
Raise(stage) ==
    /\ error' = stage
    /\ first_error' = FirstError(stage)
    /\ pc' = "cleanup_files"

\* temp_dir = tempfile.mkdtemp(dir=TEMP_DIR); downloaded_files = [].  The
\* call stands before the try: when it raises, the exception leaves
\* process_videos as it is, and neither the except nor the finally block runs.
MakeTempDir ==
    /\ pc = "mkdtemp"
    /\ \/ /\ temp_dir' = TRUE
          /\ workspaces' = workspaces + 1
          /\ downloaded_files' = {}
          /\ pc' = "download"
          /\ UNCHANGED <<uncaught, first_error>>
       \/ /\ uncaught' = TRUE
          /\ first_error' = FirstError("mkdtemp")
          /\ pc' = "exit"
          /\ UNCHANGED <<temp_dir, workspaces, downloaded_files>>
    /\ UNCHANGED <<request, status, audio_temp, narration_temp, output_file,
                   dir_files, video, audio, exported, error, teardown,
                   fetches, writes, served, lookup, lookup_open>>

\* One download_file(url, temp_dir) of the list comprehension.  A failure
\* leaves the files written so far in temp_dir, unregistered.
DownloadFile ==
    /\ pc = "download"
    /\ Len(dir_files) < n_links
    /\ \E outcome \in FetchOutcomes :
         /\ fetches' = fetches + 1
         /\ dir_files' = CASE outcome = "ok" -> Append(dir_files, "complete")
                           [] outcome = "broken" -> Append(dir_files, "partial")
                           [] OTHER -> dir_files
         /\ writes' = IF outcome = "refused" THEN writes ELSE writes + 1
         /\ IF outcome = "ok"
            THEN /\ pc' = "download"
                 /\ UNCHANGED <<error, first_error>>
            ELSE Raise("fetch_video")
    /\ UNCHANGED <<request, uncaught, status, audio_temp, narration_temp, output_file,
                   temp_dir, downloaded_files, video, audio, exported,
                   teardown, workspaces, served, lookup, lookup_open>>

\* downloaded_files.extend(video_files), once every download has returned.
RegisterDownloads ==
    /\ pc = "download"
    /\ Len(dir_files) = n_links
    /\ downloaded_files' = 1..n_links
    /\ pc' = "load"
    /\ UNCHANGED <<request, uncaught, status, disk, video, audio, exported, error,
                   first_error, teardown, counters, served, lookup, lookup_open>>

\* One VideoFileClip(file): the clip's duration, a float, becomes known, or
\* the file cannot be decoded.
LoadClip ==
    /\ pc = "load"
    /\ Len(durations) < n_links
    /\ \/ /\ \E d \in Floats(0, MaxDur) : durations' = Append(durations, d)
          /\ pc' = "load"
          /\ UNCHANGED <<error, first_error>>
       \/ /\ Raise("load")
          /\ UNCHANGED durations
    /\ UNCHANGED <<request, uncaught, status, disk, downloaded_files, clips, trimmed,
                   final_duration, audio, exported, teardown, counters,
                   served, lookup, lookup_open>>

\* "Trim clips if total duration exceeds max_duration".
Trim ==
    /\ pc = "load"
    /\ Len(durations) = n_links
    /\ clips' = TrimClips(ClipsOf(durations), max_duration)
    /\ trimmed' = TRUE
    /\ pc' = "concatenate"
    /\ UNCHANGED <<request, uncaught, status, disk, downloaded_files, durations,
                   final_duration, audio, exported, error, first_error,
                   teardown, counters, served, lookup, lookup_open>>

\* concatenate_videoclips(clips), then the subclip to max_duration.  An empty
\* list of clips has no size to take the maximum of and raises.
Concatenate ==
    /\ pc = "concatenate"
    /\ \/ /\ clips # <<>>
          /\ final_duration' = FinalDuration(clips, max_duration)
          /\ pc' = "load_audio"
          /\ UNCHANGED <<error, first_error>>
       \/ /\ Raise("concatenate")
          /\ UNCHANGED final_duration
    /\ UNCHANGED <<request, uncaught, status, disk, downloaded_files, durations, clips,
                   trimmed, audio, exported, teardown, counters, served,
                   lookup, lookup_open>>

\* background_audio = AudioFileClip(audio_path): the source's duration becomes
\* known, or the file (the link itself, for a detached job) cannot be read.
LoadBackground ==
    /\ pc = "load_audio"
    /\ \/ /\ \E d \in 1..MaxAudio : bg_source' = d
          /\ pc' = "fit_audio"
          /\ UNCHANGED <<error, first_error>>
       \/ /\ Raise("load_audio")
          /\ UNCHANGED bg_source
    /\ UNCHANGED <<request, uncaught, status, disk, downloaded_files, video, bg_segment,
                   bg_looped, bg_volume, narr_source, narr_segment,
                   audio_track, exported, teardown, counters, served, lookup, lookup_open>>

\* "Loop background audio if it's shorter than the video", else subclip.
\* The loop is written background_audio.fx.audio_loop(duration=...): fx is the
\* clip's method fx(func, *args, **kwargs), audio_loop is looked up as an
\* attribute of that bound method, which has none, and the expression raises
\* AttributeError before anything is looped.
FitBackground ==
    /\ pc = "fit_audio"
    /\ IF bg_source < final_duration
       THEN /\ Raise("audio_loop")
            /\ UNCHANGED <<bg_segment, bg_looped>>
       ELSE /\ bg_segment' = final_duration
            /\ bg_looped' = FALSE
            /\ pc' = "narration"
            /\ UNCHANGED <<error, first_error>>
    /\ UNCHANGED <<request, uncaught, status, disk, downloaded_files, video, bg_source,
                   bg_volume, narr_source, narr_segment, audio_track,
                   exported, teardown, counters, served, lookup, lookup_open>>

\* narration_path is given and the file exists.
HasNarration ==
    endpoint = "combine_with_narration" /\ narration_temp # "absent"

\* The narration branch: the narration is trimmed if longer than the video,
\* the background is turned down, and the two are composed (a composite ends
\* with its last clip); without narration the background is the audio.
AddNarration ==
    /\ pc = "narration"
    /\ IF HasNarration
       THEN \/ /\ \E d \in 1..MaxAudio :
                    /\ narr_source' = d
                    /\ narr_segment' = IF d > final_duration
                                       THEN final_duration ELSE d
               /\ bg_volume' = BackgroundVolume
               /\ audio_track' = Max(bg_segment, narr_segment')
               /\ pc' = "write"
               /\ UNCHANGED <<error, first_error>>
            \/ /\ Raise("narration")
               /\ UNCHANGED <<narr_source, narr_segment, bg_volume,
                              audio_track>>
       ELSE /\ audio_track' = bg_segment
            /\ pc' = "write"
            /\ UNCHANGED <<narr_source, narr_segment, bg_volume, error,
                           first_error>>
    /\ UNCHANGED <<request, uncaught, status, disk, downloaded_files, video, bg_source,
                   bg_segment, bg_looped, exported, teardown, counters,
                   served, lookup, lookup_open>>

\* final_clip.write_videofile(output_path) starts: the encoder creates the
\* file at output_path, or fails before it does.
BeginWrite ==
    /\ pc = "write"
    /\ \/ /\ output_file' = "partial"
          /\ writes' = writes + 1
          /\ pc' = "writing"
          /\ UNCHANGED <<error, first_error>>
       \/ /\ Raise("export")
          /\ UNCHANGED <<output_file, writes>>
    /\ UNCHANGED <<request, uncaught, status, audio_temp, narration_temp, temp_dir,
                   dir_files, downloaded_files, video, audio, exported,
                   teardown, workspaces, fetches, served, lookup, lookup_open>>

\* write_videofile returns (return output_path, then the finally block), or
\* fails with the file half written.
FinishWrite ==
    /\ pc = "writing"
    /\ \/ /\ output_file' = "complete"
          /\ exported' = TRUE
          /\ pc' = "cleanup_files"
          /\ UNCHANGED <<error, first_error>>
       \/ /\ Raise("export")
          /\ UNCHANGED <<output_file, exported>>
    /\ UNCHANGED <<request, uncaught, status, audio_temp, narration_temp, temp_dir,
                   dir_files, downloaded_files, video, audio, teardown,
                   counters, served, lookup, lookup_open>>

\* ------------------------------------------------------ the finally block
Absent(files) == [i \in 1..Len(files) |-> "absent"]

\* The loop was left at the first failing removal.
CleanupFileFailsAborting ==
    /\ pc = "cleanup_files"
    /\ cleanup_i <= Cardinality(downloaded_files)
    /\ removes_tried' = removes_tried + 1
    /\ error' = "cleanup"
    /\ pc' = "exit"
    /\ UNCHANGED <<request, uncaught, status, disk, downloaded_files, video, audio,
                   exported, first_error, cleanup_i, rmtree_tried, rmtree_failed,
                   warnings,
                   counters, served, lookup, lookup_open>>

\* One turn of "for file in downloaded_files": the file is removed if it
\* exists.
CleanupFile ==
    /\ pc = "cleanup_files"
    /\ cleanup_i <= Cardinality(downloaded_files)
    /\ IF dir_files[cleanup_i] # "absent"
       THEN /\ removes_tried' = removes_tried + 1
            /\ dir_files' = [dir_files EXCEPT ![cleanup_i] = "absent"]
       ELSE UNCHANGED <<removes_tried, dir_files>>
    /\ cleanup_i' = cleanup_i + 1
    /\ UNCHANGED <<request, uncaught, pc, status, audio_temp, narration_temp,
                   output_file, temp_dir, downloaded_files, video, audio,
                   exported, error, first_error, rmtree_tried, rmtree_failed,
                   warnings,
                   counters, served, lookup, lookup_open>>

\* One turn of the loop whose os.remove raises: the failure is logged as a
\* warning and the loop goes on to the next file.
CleanupFileFails ==
    /\ pc = "cleanup_files"
    /\ cleanup_i <= Cardinality(downloaded_files)
    /\ removes_tried' = removes_tried + 1
    /\ warnings' = warnings + 1
    /\ cleanup_i' = cleanup_i + 1
    /\ UNCHANGED <<request, uncaught, pc, status, disk, downloaded_files, video, audio,
                   exported, error, first_error, rmtree_tried, rmtree_failed,
                   counters,
                   served, lookup, lookup_open>>

\* A teardown that removes the registered files only and leaves the directory.
RemoveTempDirSkipped ==
    /\ pc = "cleanup_files"
    /\ cleanup_i > Cardinality(downloaded_files)
    /\ pc' = "exit"
    /\ UNCHANGED <<request, uncaught, status, disk, downloaded_files, video, audio,
                   exported, error, first_error, teardown, counters, served,
                   lookup, lookup_open>>

\* shutil.rmtree(temp_dir): the directory goes, with whatever is in it.
RemoveTempDir ==
    /\ pc = "cleanup_files"
    /\ cleanup_i > Cardinality(downloaded_files)
    /\ rmtree_tried' = rmtree_tried + 1
    /\ temp_dir' = FALSE
    /\ dir_files' = Absent(dir_files)
    /\ pc' = "exit"
    /\ UNCHANGED <<request, uncaught, status, audio_temp, narration_temp, output_file,
                   downloaded_files, video, audio, exported, error,
                   first_error, cleanup_i, removes_tried, rmtree_failed, warnings,
                   counters,
                   served, lookup, lookup_open>>

\* Files of temp_dir that exist.
Present(files) == {i \in 1..Len(files) : files[i] # "absent"}

\* shutil.rmtree raises: it has removed the entries it came to before the one
\* it failed on (in the directory's own order), the rest and the directory
\* stay, and the failure is logged as a warning.
RemoveTempDirFails ==
    /\ pc = "cleanup_files"
    /\ cleanup_i > Cardinality(downloaded_files)
    /\ rmtree_tried' = rmtree_tried + 1
    /\ rmtree_failed' = TRUE
    /\ warnings' = warnings + 1
    /\ \E left \in SUBSET Present(dir_files) :
         dir_files' = [i \in 1..Len(dir_files) |->
                          IF i \in left THEN dir_files[i] ELSE "absent"]
    /\ pc' = "exit"
    /\ UNCHANGED <<request, uncaught, status, audio_temp, narration_temp,
                   output_file, temp_dir, downloaded_files, video, audio,
                   exported, error, first_error, cleanup_i, removes_tried,
                   counters, served, lookup, lookup_open>>

\* ------------------------------------------- after process_videos returns
Inline == endpoint # "combine_videos_async"

\* process_videos returned: the removals are scheduled and the file at
\* output_path is the response (its name gives the job id away).
RespondFile ==
    /\ pc = "exit"
    /\ Inline
    /\ error = "none"
    /\ ~uncaught
    /\ status' = 200
    /\ served' = served \cup {output_file}
    /\ pc' = "remove_output"
    /\ UNCHANGED <<request, uncaught, disk, downloaded_files, video, audio,
                   exported, error, first_error, teardown, counters, lookup, lookup_open>>

\* The background task that follows the task at pc; the narration's removal
\* is scheduled by /combine-with-narration only.
NextTask ==
    CASE pc = "remove_output" -> "remove_audio"
      [] pc = "remove_audio" -> IF endpoint = "combine_with_narration"
                                THEN "remove_narration" ELSE "done"
      [] OTHER -> "done"

\* One scheduled os.remove, run after the response: the tasks run one after
\* the other, output_path first.  os.remove raises when the file is not there.
BackgroundRemove ==
    /\ pc \in {"remove_output", "remove_audio", "remove_narration"}
    /\ pc = "remove_output" => output_file # "absent"
    /\ output_file' = IF pc = "remove_output" THEN "absent" ELSE output_file
    /\ audio_temp' = IF pc = "remove_audio" THEN "absent" ELSE audio_temp
    /\ narration_temp' = IF pc = "remove_narration"
                         THEN "absent" ELSE narration_temp
    /\ pc' = NextTask
    /\ UNCHANGED <<request, uncaught, status, temp_dir, dir_files,
                   downloaded_files, video, audio, exported, error,
                   first_error, teardown, counters, served, lookup, lookup_open>>

\* A scheduled os.remove raises: its file stays, and the tasks after it are
\* not run.
BackgroundRemoveFails ==
    /\ pc \in {"remove_output", "remove_audio", "remove_narration"}
    /\ pc' = "done"
    /\ UNCHANGED <<request, uncaught, status, disk, downloaded_files, video,
                   audio, exported, error, first_error, teardown, counters,
                   served, lookup, lookup_open>>

\* os.path.exists(path) and os.remove(path) under "except: pass": the file is
\* gone, or it stays when the removal raises.
AfterRemove(file) == IF file = "absent" THEN {"absent"} ELSE {"absent", file}

\* process_videos raised: the handler removes output_path, audio_temp_path
\* (and narration_temp_path) where they exist, ignoring a removal that fails,
\* and answers 500.
HandlerExcept ==
    /\ pc = "exit"
    /\ Inline
    /\ error # "none" \/ uncaught
    /\ output_file' \in AfterRemove(output_file)
    /\ audio_temp' \in AfterRemove(audio_temp)
    /\ narration_temp' \in IF endpoint = "combine_with_narration"
                           THEN AfterRemove(narration_temp)
                           ELSE {narration_temp}
    /\ status' = InternalError
    /\ pc' = "done"
    /\ UNCHANGED <<request, uncaught, temp_dir, dir_files, downloaded_files,
                   video, audio, exported, error, first_error, teardown,
                   counters, served, lookup, lookup_open>>

\* The detached task ends; nothing looks at its result or at output_path.
TaskEnds ==
    /\ pc = "exit"
    /\ ~Inline
    /\ pc' = "done"
    /\ UNCHANGED <<request, uncaught, status, disk, downloaded_files, video,
                   audio, exported, error, first_error, teardown, counters,
                   served, lookup, lookup_open>>

\* GET /download/{job_id}, at any time once the job id is known (from the
\* detached job's answer, or from the name of an inline job's file): 404 if no
\* file is at the job's output path, else a response for that file.
DownloadVideo ==
    /\ status = 200
    /\ ~lookup_open
    /\ IF output_file = "absent"
       THEN /\ lookup' = NotFound
            /\ UNCHANGED lookup_open
       ELSE /\ lookup_open' = TRUE
            /\ UNCHANGED lookup
    /\ UNCHANGED <<request, uncaught, pc, status, disk, downloaded_files,
                   video, audio, exported, error, first_error, teardown,
                   counters, served>>

\* The response of download_video is sent: the file as it is at that moment,
\* or a server error when it has been removed since the check.
SendFile ==
    /\ lookup_open
    /\ lookup_open' = FALSE
    /\ IF output_file = "absent"
       THEN /\ lookup' = InternalError
            /\ UNCHANGED served
       ELSE /\ lookup' = 200
            /\ served' = served \cup {output_file}
    /\ UNCHANGED <<request, uncaught, pc, status, disk, downloaded_files,
                   video, audio, exported, error, first_error, teardown,
                   counters>>

\* ---------------------------------------------------------- specifications
Next ==
    \/ RejectInvalid
    \/ CombineVideos
    \/ CombineVideosAsync
    \/ CombineWithNarration
    \/ FetchAudio
    \/ SaveNarration
    \/ MakeTempDir
    \/ DownloadFile
    \/ RegisterDownloads
    \/ LoadClip
    \/ Trim
    \/ Concatenate
    \/ LoadBackground
    \/ FitBackground
    \/ AddNarration
    \/ BeginWrite
    \/ FinishWrite
    \/ CleanupFile
    \/ CleanupFileFails
    \/ RemoveTempDir
    \/ RemoveTempDirFails
    \/ RespondFile
    \/ BackgroundRemove
    \/ BackgroundRemoveFails
    \/ HandlerExcept
    \/ TaskEnds
    \/ DownloadVideo
    \/ SendFile

Spec == Init /\ [][Next]_vars

\* The trimming step and the concatenation on long durations, where sums and
\* differences round: a job whose clips have all been downloaded and loaded,
\* with a budget that is a float itself (an int converts to float unchanged).
InitBudget ==
    /\ endpoint \in Endpoints
    /\ n_links \in 1..MaxClips
    /\ has_audio_link = TRUE
    /\ max_duration \in Floats(0, Pow2(Precision) + MaxBeyond)
    /\ pc = "load"
    /\ status = IF Inline THEN 0 ELSE 200
    /\ audio_temp = IF Inline THEN "complete" ELSE "absent"
    /\ narration_temp = IF endpoint = "combine_with_narration"
                        THEN "complete" ELSE "absent"
    /\ output_file = "absent"
    /\ temp_dir = TRUE
    /\ dir_files = [i \in 1..n_links |-> "complete"]
    /\ downloaded_files = 1..n_links
    /\ durations \in [1..n_links -> Floats(0, Pow2(Precision) + MaxBeyond)]
    /\ clips = <<>>
    /\ trimmed = FALSE
    /\ final_duration = NoValue
    /\ bg_source = NoValue
    /\ bg_segment = NoValue
    /\ bg_looped = FALSE
    /\ bg_volume = 100
    /\ narr_source = NoValue
    /\ narr_segment = NoValue
    /\ audio_track = NoValue
    /\ exported = FALSE
    /\ error = "none"
    /\ first_error = "none"
    /\ uncaught = FALSE
    /\ cleanup_i = 1
    /\ removes_tried = 0
    /\ rmtree_tried = 0
    /\ rmtree_failed = FALSE
    /\ warnings = 0
    /\ workspaces = 1
    /\ fetches = n_links + (IF Inline THEN 1 ELSE 0)
    /\ writes = n_links + (IF Inline THEN 1 ELSE 0)
                + (IF endpoint = "combine_with_narration" THEN 1 ELSE 0)
    /\ served = {}
    /\ lookup = 0
    /\ lookup_open = FALSE

NextBudget ==
    \/ Trim
    \/ Concatenate

SpecBudget == InitBudget /\ [][NextBudget]_vars

\* ------------------------------------------------------------------ claims
\* The sum of a sequence of durations as numbers, nothing rounded.
RECURSIVE Sum(_)
Sum(s) == IF s = <<>> THEN 0 ELSE Head(s) + Sum(Tail(s))

\* Seconds of clip i (its place in video_links) that are in clips.
RECURSIVE KeptIn(_, _)
KeptIn(cs, i) ==
    IF cs = <<>> THEN 0
    ELSE (IF Head(cs).clip = i THEN Head(cs).duration ELSE 0)
         + KeptIn(Tail(cs), i)

Kept(i) == KeptIn(clips, i)

RECURSIVE KeptBefore(_)
KeptBefore(i) == IF i <= 1 THEN 0 ELSE Kept(i - 1) + KeptBefore(i - 1)

\* What is left of the budget when clip i is reached.
Remaining(i) == max_duration - KeptBefore(i)

InClips(i) == \E k \in 1..Len(clips) : clips[k].clip = i

\* process_videos has returned or raised.
ProcessExited ==
    /\ workspaces > 0
    /\ pc \in {"exit", "remove_output", "remove_audio", "remove_narration",
              "done"}

\* C1: for a positive max_duration, after the trimming step the kept durations
\* add up to at most max_duration, no clip keeps more than its own duration,
\* and if the clips' total is within max_duration every clip is kept in full.
C1_BudgetRespected ==
    (trimmed /\ max_duration > 0) =>
        /\ Sum([i \in 1..Len(durations) |-> Kept(i)]) <= max_duration
        /\ \A i \in 1..Len(durations) : Kept(i) <= durations[i]
        /\ Sum(durations) <= max_duration =>
               /\ clips = ClipsOf(durations)
               /\ \A i \in 1..Len(durations) : Kept(i) = durations[i]

\* C2: for a positive max_duration the allocation is greedy in input order:
\* clip i keeps min(duration[i], remaining), remaining being max_duration less
\* what the clips before it keep; the kept clips stay in input order; once
\* nothing remains every later clip of positive length is dropped; and
\* durations [5, 5, 5] with budget 7 keep [5, 2, 0].
C2_GreedyInOrder ==
    /\ (trimmed /\ max_duration > 0) =>
        /\ \A i \in 1..Len(durations) :
               /\ Kept(i) = Min(durations[i], Remaining(i))
               /\ (Remaining(i) = 0 /\ durations[i] > 0) => ~InClips(i)
        /\ \A a, b \in 1..Len(clips) : a < b => clips[a].clip < clips[b].clip
    /\ TrimClips(ClipsOf(<<5, 5, 5>>), 7)
           = <<[clip |-> 1, duration |-> 5], [clip |-> 2, duration |-> 2]>>

\* C3: whenever process_videos has returned or raised, the teardown has run
\* exactly once (every registered file visited once, rmtree called once), and
\* the scratch directory is gone and so is every file downloaded into it,
\* whatever the exit and whether or not an os.remove of the loop failed; the
\* one case left to C10 is that of rmtree itself raising.
C3_TeardownOnEveryExit ==
    ProcessExited =>
        /\ rmtree_tried = 1
        /\ cleanup_i = Cardinality(downloaded_files) + 1
        /\ ~rmtree_failed =>
               /\ ~temp_dir
               /\ \A i \in 1..Len(dir_files) : dir_files[i] = "absent"

\* A video fetch failed after an earlier video had been downloaded; nothing
\* was registered in downloaded_files, and the teardown removed it all.
C3_Witness ==
    /\ ProcessExited
    /\ error = "fetch_video"
    /\ Len(dir_files) >= 2
    /\ downloaded_files = {}
    /\ rmtree_tried = 1
    /\ ~rmtree_failed
    /\ ~temp_dir
    /\ \A i \in 1..Len(dir_files) : dir_files[i] = "absent"

\* C4: a file is served, or left at the job's output path once the job is
\* over, only if the job's export completed.
C4_NoPartialOutput ==
    /\ served \subseteq {"complete"}
    /\ served # {} => exported
    /\ (pc = "done" /\ output_file # "absent") => exported

\* C5: when the job is over no fetched asset is left on disk: no downloaded
\* video, no background audio file, no narration file.
C5_NoAssetLeft ==
    pc = "done" =>
        /\ audio_temp = "absent"
        /\ narration_temp = "absent"
        /\ \A i \in 1..Len(dir_files) : dir_files[i] = "absent"

\* C6: a request with no video link, or with no audio link, causes no
\* download, no scratch directory and no file.
C6_RejectedBeforeWork ==
    (n_links = 0 \/ ~has_audio_link) =>
        /\ fetches = 0
        /\ workspaces = 0
        /\ writes = 0

\* C7: once the background has been loaded and fitted, its segment has the
\* duration of the video, and it was looped exactly when the source is
\* shorter than the video.
C7_BackgroundFitsTarget ==
    (bg_source # NoValue /\ pc # "fit_audio") =>
        /\ bg_segment = final_duration
        /\ bg_looped <=> (bg_source < final_duration)

\* C8: with narration, once the background is loaded and unless the narration
\* itself cannot be read, the narration segment is min(narration, target), the
\* background segment has the target duration at 30% volume, and the mixed
\* track has the target duration.
C8_NarrationMix ==
    ( /\ endpoint = "combine_with_narration"
      /\ bg_source # NoValue
      /\ pc \notin {"fit_audio", "narration"}
      /\ first_error # "narration" ) =>
        /\ narr_segment = Min(narr_source, final_duration)
        /\ bg_segment = final_duration
        /\ bg_volume = BackgroundVolume
        /\ audio_track = final_duration

FetchFailures == {"fetch_audio", "fetch_video"}

\* Failures of the job's own work: the scratch directory and the assembly.
InternalFailures ==
    {"mkdtemp", "load", "concatenate", "load_audio", "audio_loop", "narration",
     "export"}

\* C9: a job whose first failure is a fetch failure (audio or video) is
\* answered 400, and a job answered 500 failed in its own work.
C9_StatusByKind ==
    (pc = "done" /\ Inline) =>
        /\ first_error \in FetchFailures => status = BadRequest
        /\ status = InternalError => first_error \in InternalFailures

\* C10: a failing removal of the workspace release changes nothing of the job's
\* outcome: process_videos raises its first error or returns after a
\* completed export, the caller is answered accordingly, and the remaining
\* removals are still attempted.
C10_TeardownFailureIsSilent ==
    /\ ProcessExited =>
        /\ error = first_error
        /\ exported <=> (error = "none")
        /\ cleanup_i = Cardinality(downloaded_files) + 1
        /\ rmtree_tried = 1
    /\ (ProcessExited /\ Inline /\ pc = "done") =>
        status = IF exported THEN 200 ELSE InternalError

\* The export failed, then a file's removal failed, then rmtree removed the
\* directory, and the caller got the 500 of the export.
C10_Witness ==
    /\ pc = "done"
    /\ first_error = "export"
    /\ warnings >= 1
    /\ rmtree_tried = 1
    /\ ~temp_dir
    /\ status = InternalError

====
